---- MODULE Spec2Model ----
(***************************************************************************)
(* Model of rlbot.managers.hivemind.Hivemind: the three-payload handshake, *)
(* the single-slot frame mailbox, the packet loop of run() and its         *)
(* teardown; Hivemind.set_game_state; and                                  *)
(* rlbot.managers.rendering.RenderingManager, the render-group batcher.    *)
(***************************************************************************)
EXTENDS Integers, Sequences, FiniteSets, TLC

\* ---------------------------------------------------------------- bounds
\* highest key of the dicts given to set_game_state
MaxKey == 2
\* cap on the set_game_state calls made in one run
MaxGameStates == 1
\* cap on the draw calls made in one run
MaxRenders == 2
\* cap on the render messages handed to the relay in one run
MaxRenderMsgs == 2
\* number of tick packets the relay delivers in one run
MaxFrames == 2
\* cap on the length of the roster lists (they grow on every player mapping)
MaxRoster == 3

\* ------------------------------------------------------- payload domains
None == "None"
\* the empty mailbox (_latest_packet is None); packets have ids from 1
NoPacket == [id |-> 0, players |-> 0]

\* flat.MatchSettings().player_configurations: (spawn_id, name) in list order
DefaultMatchSettings == << >>
MatchSettingsPayloads ==
    { << [spawn_id |-> 1, name |-> "a"], [spawn_id |-> 2, name |-> "b"] >>,
      << [spawn_id |-> 2, name |-> "b"], [spawn_id |-> 1, name |-> "a"] >> }

DefaultFieldInfo == "fi0"
FieldInfoPayloads == { "fi1" }

\* flat.TeamControllables: team and controllables (spawn_id, index) in order
PlayerMappingPayloads ==
    { [team |-> 0, controllables |-> << [spawn_id |-> 1, index |-> 0] >>],
      [team |-> 0, controllables |-> << [spawn_id |-> 1, index |-> 0],
                                        [spawn_id |-> 2, index |-> 1] >>],
      [team |-> 1, controllables |-> << [spawn_id |-> 2, index |-> 1],
                                        [spawn_id |-> 1, index |-> 0] >>] }

DefaultBallPrediction == "bp0"
BallPredictionPayloads == { "bp1", "bp2" }

\* len(packet.players) of a tick packet
PlayerCounts == { 1, 2 }

\* what the user's get_outputs(packet) does: raise, or return a dict, given
\* here as its items() in insertion order
OutputDicts ==
    { << [index |-> 0, controller |-> "c0"] >>,
      << [index |-> 1, controller |-> "c1"], [index |-> 0, controller |-> "c0"] >> }
GetOutputsResults ==
    { [raises |-> TRUE, items |-> << >>] }
        \cup { [raises |-> FALSE, items |-> d] : d \in OutputDicts }

VARIABLES
    \* --- Hivemind attributes
    team, indices, names, spawn_ids, loggers,
    match_settings, field_info, ball_prediction,
    _initialized_bot, _has_match_settings, _has_field_info, _has_player_mapping,
    _latest_packet, _latest_prediction,
    \* --- run(): position, socket mode, exception leaving run()
    pc, blocking, raised,
    \* --- the relay's outbound messages, in order
    sent,
    \* --- observation of the calls made
    initCalls,        \* invocations of the initialize() hook
    initFailed,       \* initialize() raised
    dispatched,       \* handshake payload kinds the relay has dispatched
    frameCount,       \* tick packets delivered so far
    pending,          \* ids of the packets delivered since the last drain
    processed,        \* ids of the packets passed to _packet_processor
    lastResult,       \* what _packet_processor did with the last packet:
                      \* "discarded", "failed", "sent", or the exception
                      \* it let propagate
    lastOutputs,      \* items of the dict get_outputs() last returned
    getOutputsCalls,  \* invocations of get_outputs()
    getOutputsFails,  \* invocations of get_outputs() that raised
    seenPrediction,   \* self.ball_prediction as get_outputs() last saw it
    teardown,         \* calls made by the finally block of run(), in order
    lastGameStateArgs, \* arguments of the last set_game_state() call
    other,            \* the attributes assigned on a second Hivemind
                      \* instance of the same process
    \* --- the process: seed of the interpreter's bytes/str hash
    hash_seed,
    \* --- RenderingManager attributes, one value per batcher instance
    used_group_ids, group_id, current_renders,
    \* --- render messages handed to the relay, in order, by any instance
    render_sent,
    \* --- observation of the batcher calls
    last_call,        \* the last batcher method called: instance and method
    open_name,        \* per instance: name given to the begin_rendering
                      \* that opened the current batch
    since_begin,      \* per instance: descriptors drawn since that call
    since_end,        \* per instance: descriptors drawn since the last
                      \* end_rendering that sent a message
    known_ids         \* (name, id) of every _get_group_id call so far

roster    == << team, indices, spawn_ids >>
payloads  == << match_settings, field_info >>
flags     == << _has_match_settings, _has_field_info, _has_player_mapping >>
initVars  == << names, loggers, _initialized_bot, initCalls, initFailed >>
exitVars  == << pc, raised, teardown >>
frameVars == << _latest_packet, frameCount, pending >>
procVars  == << ball_prediction, processed, lastResult, lastOutputs,
                getOutputsCalls, getOutputsFails, seenPrediction >>

renderVars == << hash_seed, used_group_ids, group_id, current_renders,
                 render_sent, last_call, open_name, since_begin, since_end,
                 known_ids >>
\* what the handshake and the packet loop never touch
otherVars == << lastGameStateArgs, other, renderVars >>

vars == << team, indices, names, spawn_ids, loggers, match_settings, field_info,
           ball_prediction, _initialized_bot, _has_match_settings,
           _has_field_info, _has_player_mapping, _latest_packet,
           _latest_prediction, pc, blocking, raised, sent, initCalls,
           initFailed, dispatched, frameCount, pending, processed, lastResult,
           lastOutputs, getOutputsCalls, getOutputsFails, seenPrediction, teardown,
           lastGameStateArgs, other, hash_seed, used_group_ids, group_id,
           current_renders, render_sent, last_call, open_name, since_begin,
           since_end, known_ids >>

\* ------------------------------------------------------------- helpers
Last(s) == s[Len(s)]

RECURSIVE SeqMax(_)
SeqMax(s) ==
    IF Len(s) = 1 THEN s[1]
    ELSE LET m == SeqMax(Tail(s)) IN IF s[1] > m THEN s[1] ELSE m

InSeq(x, s) == \E k \in 1 .. Len(s) : s[k] = x

\* [c.spawn_id for c in controllables] / [c.index for c in controllables]
SpawnIdsOf(cs) == [k \in 1 .. Len(cs) |-> cs[k].spawn_id]
IndicesOf(cs)  == [k \in 1 .. Len(cs) |-> cs[k].index]

\* the names _initialize appends: one per player configuration whose
\* spawn_id is in self.spawn_ids, in player_configurations order
RECURSIVE MatchingNames(_, _)
MatchingNames(configs, sids) ==
    IF configs = << >> THEN << >>
    ELSE (IF InSeq(Head(configs).spawn_id, sids)
             THEN << Head(configs).name >> ELSE << >>)
         \o MatchingNames(Tail(configs), sids)

\* variant: every message carries the index of the first item
PlayerInputs_first_index(items) ==
    [k \in 1 .. Len(items) |->
        [type |-> "player_input", index |-> items[1].index,
         controller |-> items[k].controller]]

\* one flat.PlayerInput(index, controller) per item of the returned dict
PlayerInputs(items) ==
    [k \in 1 .. Len(items) |->
        [type |-> "player_input", index |-> items[k].index,
         controller |-> items[k].controller]]

\* the three payload kinds of the handshake
HandshakeKinds == { "match_settings", "field_info", "player_mapping" }

\* handler lists the constructor appends a method to
RegisteredKinds ==
    { "match_settings", "field_info", "match_communication",
      "ball_prediction", "packet" }

\* ------------------------------------------- batcher and process domains
\* the batcher instances of the process
Renderers == { 1, 2 }

\* group names the callers use; "default" is DEFAULT_GROUP_ID
DEFAULT_GROUP_ID == "default"
GroupNames == { DEFAULT_GROUP_ID, "x" }

\* self.group_id is None: no batch open (group ids are never negative)
NoGroup == -1

MAX_INT == 2147483647 \div 2

\* seeds the interpreter may draw for hash() of bytes at start-up
HashSeeds == { 0, 1 }

\* hash(str(name).encode("utf-8")) under a seed: a keyed hash of the bytes,
\* here a table of representative values, negative ones included
RawHash(seed, name) ==
    CASE seed = 0 /\ name = "default" -> 7
      [] seed = 0 /\ name = "x"       -> -3
      [] seed = 1 /\ name = "default" -> 12
      [] seed = 1 /\ name = "x"       -> 5

\* what the attribute lookups of a fresh instance find for the attributes
\* the handshake handlers assign: the class-level values
ClassDefaults ==
    [team |-> -1,
     match_settings |-> DefaultMatchSettings,
     field_info |-> DefaultFieldInfo,
     _initialized_bot |-> FALSE,
     _has_match_settings |-> FALSE,
     _has_field_info |-> FALSE,
     _has_player_mapping |-> FALSE]

\* before any batcher call
NoCall == [by |-> 0, op |-> "none"]

\* an empty dict
EmptyDict == << >>

\* before any set_game_state call
NoGameStateArgs == [called |-> FALSE, balls |-> EmptyDict, cars |-> EmptyDict]

\* ---------------------------------------------------------------- Init
\* RenderingManager.__init__, for every instance
RenderInit ==
    /\ used_group_ids = [r \in Renderers |-> {}]
    /\ group_id = [r \in Renderers |-> NoGroup]
    /\ current_renders = [r \in Renderers |-> << >>]
    /\ render_sent = << >>
    /\ last_call = NoCall
    /\ open_name = [r \in Renderers |-> "none"]
    /\ since_begin = [r \in Renderers |-> << >>]
    /\ since_end = [r \in Renderers |-> << >>]
    /\ known_ids = {}

HivemindInit ==
    /\ team = -1
    /\ indices = << >>
    /\ names = << >>
    /\ spawn_ids = << >>
    /\ loggers = << >>
    /\ match_settings = DefaultMatchSettings
    /\ field_info = DefaultFieldInfo
    /\ ball_prediction = DefaultBallPrediction
    /\ _initialized_bot = FALSE
    /\ _has_match_settings = FALSE
    /\ _has_field_info = FALSE
    /\ _has_player_mapping = FALSE
    /\ _latest_packet = NoPacket
    /\ _latest_prediction = DefaultBallPrediction
    /\ pc = "constructed"
    /\ blocking = TRUE
    /\ raised = None
    /\ sent = << >>
    /\ initCalls = 0
    /\ initFailed = FALSE
    /\ dispatched = {}
    /\ frameCount = 0
    /\ pending = << >>
    /\ processed = << >>
    /\ lastResult = None
    /\ lastOutputs = << >>
    /\ getOutputsCalls = 0
    /\ getOutputsFails = 0
    /\ seenPrediction = None
    /\ teardown = << >>
    /\ lastGameStateArgs = NoGameStateArgs
    /\ other = ClassDefaults

\* the handshake and the loop never hash: one seed stands for all
Init ==
    /\ HivemindInit
    /\ RenderInit
    /\ hash_seed = 0

\* ------------------------------------------------ run(): the finally block
\* an exception (or the break) leaves the try body: retire(), then
\* del self._game_interface, then the exception continues out of run()
\* variant: retire() after the loop instead of in a finally block
RunFinally_no_finally(exc) ==
    /\ pc' = "exited"
    /\ raised' = exc
    /\ teardown' = IF exc = "none"
                      THEN teardown \o << "retire", "del_game_interface" >>
                      ELSE teardown

RunFinally(exc) ==
    /\ pc' = "exited"
    /\ raised' = exc
    /\ teardown' = teardown \o << "retire", "del_game_interface" >>

\* --------------------------------------------------------- _initialize
\* called from a handshake handler after it has stored its payload, so it
\* reads the new match_settings and spawn_ids; initOk is whether the user's
\* initialize() returns (TRUE) or raises (FALSE)
\* variant: a failing initialize() is logged and the handler returns
_initialize_nonfatal(initOk) ==
    /\ names' = names \o MatchingNames(match_settings', spawn_ids')
    /\ loggers' = loggers \o MatchingNames(match_settings', spawn_ids')
    /\ initCalls' = initCalls + 1
    /\ IF initOk
          THEN /\ _initialized_bot' = TRUE
               /\ sent' = Append(sent, [type |-> "init_complete"])
               /\ UNCHANGED << initFailed, exitVars >>
          ELSE /\ initFailed' = TRUE
               /\ UNCHANGED << _initialized_bot, sent, exitVars >>

_initialize(initOk) ==
    /\ names' = names \o MatchingNames(match_settings', spawn_ids')
    /\ loggers' = loggers \o MatchingNames(match_settings', spawn_ids')
    /\ initCalls' = initCalls + 1
    /\ IF initOk
          THEN /\ _initialized_bot' = TRUE
               /\ sent' = Append(sent, [type |-> "init_complete"])
               /\ UNCHANGED << initFailed, exitVars >>
          ELSE \* exit(): SystemExit leaves the handler and the loop of run()
               /\ initFailed' = TRUE
               /\ UNCHANGED << _initialized_bot, sent >>
               /\ RunFinally("SystemExit")

NoInitialize == UNCHANGED << initVars, sent, exitVars >>

\* ------------------------------------------------------------ handlers
\* variant: the guard forgets to wait for the player mapping
_handle_match_settings_early(ms, initOk) ==
    /\ match_settings' = ms
    /\ _has_match_settings' = TRUE
    /\ UNCHANGED << field_info, roster, _has_field_info, _has_player_mapping >>
    /\ IF ~_initialized_bot /\ _has_field_info
          THEN _initialize(initOk)
          ELSE NoInitialize

_handle_match_settings(ms, initOk) ==
    /\ match_settings' = ms
    /\ _has_match_settings' = TRUE
    /\ UNCHANGED << field_info, roster, _has_field_info, _has_player_mapping >>
    /\ IF ~_initialized_bot /\ _has_field_info /\ _has_player_mapping
          THEN _initialize(initOk)
          ELSE NoInitialize

\* variant: the guard forgets the one-shot check
_handle_field_info_again(fi, initOk) ==
    /\ field_info' = fi
    /\ _has_field_info' = TRUE
    /\ UNCHANGED << match_settings, roster, _has_match_settings,
                    _has_player_mapping >>
    /\ IF _has_match_settings /\ _has_player_mapping
          THEN _initialize(initOk)
          ELSE NoInitialize

_handle_field_info(fi, initOk) ==
    /\ field_info' = fi
    /\ _has_field_info' = TRUE
    /\ UNCHANGED << match_settings, roster, _has_match_settings,
                    _has_player_mapping >>
    /\ IF ~_initialized_bot /\ _has_match_settings /\ _has_player_mapping
          THEN _initialize(initOk)
          ELSE NoInitialize

_handle_player_mappings(pm, initOk) ==
    /\ team' = pm.team
    /\ spawn_ids' = spawn_ids \o SpawnIdsOf(pm.controllables)
    /\ indices' = indices \o IndicesOf(pm.controllables)
    /\ _has_player_mapping' = TRUE
    /\ UNCHANGED << payloads, _has_match_settings, _has_field_info >>
    /\ IF ~_initialized_bot /\ _has_match_settings /\ _has_field_info
          THEN _initialize(initOk)
          ELSE NoInitialize

_handle_ball_prediction(bp) ==
    _latest_prediction' = bp

\* variant: a packet is stored only when the mailbox is empty
_handle_packet_keep_first(packet) ==
    _latest_packet' = IF _latest_packet = NoPacket THEN packet
                      ELSE _latest_packet

_handle_packet(packet) ==
    _latest_packet' = packet

\* --------------------------------------------------- _packet_processor
\* results of _packet_processor that are a normal return
Returned == { "discarded", "failed", "sent" }

\* variant: the except block lacks its return, so the loop over the unbound
\* result raises
_packet_processor_no_return(packet, out) ==
    /\ processed' = Append(processed, packet.id)
    /\ IF indices = << >>
          THEN /\ lastResult' = "IndexError"
               /\ UNCHANGED << ball_prediction, getOutputsCalls, lastOutputs,
                               getOutputsFails, seenPrediction, sent >>
          ELSE IF packet.players <= Last(indices)
          THEN /\ lastResult' = "discarded"
               /\ UNCHANGED << ball_prediction, getOutputsCalls, lastOutputs,
                               getOutputsFails, seenPrediction, sent >>
          ELSE /\ ball_prediction' = _latest_prediction
               /\ seenPrediction' = ball_prediction'
               /\ getOutputsCalls' = getOutputsCalls + 1
               /\ IF out.raises
                     THEN /\ lastResult' = "UnboundLocalError"
                          /\ getOutputsFails' = getOutputsFails + 1
                          /\ UNCHANGED << sent, lastOutputs >>
                     ELSE /\ lastResult' = "sent"
                          /\ lastOutputs' = out.items
                          /\ sent' = sent \o PlayerInputs(out.items)
                          /\ UNCHANGED getOutputsFails

\* out is what the user's get_outputs(packet) does.  With an empty roster
\* self.indices[-1] raises IndexError, which nothing here catches.
_packet_processor(packet, out) ==
    /\ processed' = Append(processed, packet.id)
    /\ IF indices = << >>
          THEN /\ lastResult' = "IndexError"
               /\ UNCHANGED << ball_prediction, getOutputsCalls, lastOutputs,
                               getOutputsFails, seenPrediction, sent >>
          ELSE IF packet.players <= Last(indices)
          THEN /\ lastResult' = "discarded"
               /\ UNCHANGED << ball_prediction, getOutputsCalls, lastOutputs,
                               getOutputsFails, seenPrediction, sent >>
          ELSE /\ ball_prediction' = _latest_prediction
               /\ seenPrediction' = ball_prediction'
               /\ getOutputsCalls' = getOutputsCalls + 1
               /\ IF out.raises
                     THEN /\ lastResult' = "failed"
                          /\ getOutputsFails' = getOutputsFails + 1
                          /\ UNCHANGED << sent, lastOutputs >>
                     ELSE /\ lastResult' = "sent"
                          /\ lastOutputs' = out.items
                          /\ sent' = sent \o PlayerInputs(out.items)
                          /\ UNCHANGED getOutputsFails

\* ------------------------------------------------------------- run()
\* self._game_interface.connect(...): returns, or raises
Connect(ok) ==
    /\ UNCHANGED otherVars
    /\ pc = "constructed"
    /\ IF ok
          THEN /\ pc' = "polling"
               /\ UNCHANGED << raised, teardown >>
          ELSE RunFinally("ConnectError")
    /\ UNCHANGED << roster, payloads, flags, initVars, frameVars, procVars,
                    _latest_prediction, blocking, sent, dispatched >>

\* handle_incoming_messages(True) has read one message of the given kind:
\* the socket is non-blocking from here on and the message goes to the
\* handlers registered for its kind
Received(kind) ==
    /\ pc = "polling"
    /\ blocking' = FALSE
    /\ dispatched' = dispatched \cup ({ kind } \cap HandshakeKinds)

RelayMatchSettings(ms, initOk) ==
    /\ UNCHANGED otherVars
    /\ Received("match_settings")
    /\ _handle_match_settings(ms, initOk)
    /\ UNCHANGED << frameVars, procVars, _latest_prediction >>

RelayFieldInfo(fi, initOk) ==
    /\ UNCHANGED otherVars
    /\ Received("field_info")
    /\ _handle_field_info(fi, initOk)
    /\ UNCHANGED << frameVars, procVars, _latest_prediction >>

\* no method was appended to a handler list for this kind
RelayPlayerMapping(pm) ==
    /\ UNCHANGED otherVars
    /\ Received("player_mapping")
    /\ IF "player_mapping" \in RegisteredKinds
          THEN /\ Len(indices) + Len(pm.controllables) <= MaxRoster
               /\ _handle_player_mappings(pm, TRUE)
          ELSE UNCHANGED << roster, payloads, flags, initVars, sent, exitVars >>
    /\ UNCHANGED << frameVars, procVars, _latest_prediction >>

\* _handle_match_communication forwards to the user's hook, a no-op
RelayMatchComm ==
    /\ UNCHANGED otherVars
    /\ Received("match_communication")
    /\ UNCHANGED << roster, payloads, flags, initVars, sent, exitVars,
                    frameVars, procVars, _latest_prediction >>

RelayBallPrediction(bp) ==
    /\ UNCHANGED otherVars
    /\ Received("ball_prediction")
    /\ _handle_ball_prediction(bp)
    /\ UNCHANGED << roster, payloads, flags, initVars, sent, exitVars,
                    frameVars, procVars >>

RelayPacket(n) ==
    /\ UNCHANGED otherVars
    /\ Received("packet")
    /\ frameCount < MaxFrames
    /\ frameCount' = frameCount + 1
    /\ _handle_packet([id |-> frameCount', players |-> n])
    /\ pending' = Append(pending, frameCount')
    /\ UNCHANGED << roster, payloads, flags, initVars, sent, exitVars,
                    procVars, _latest_prediction >>

\* _handle_player_mappings invoked on the instance while run() is polling,
\* by a caller other than the relay's dispatch
CallHandlePlayerMappings(pm, initOk) ==
    /\ UNCHANGED otherVars
    /\ pc = "polling"
    /\ Len(indices) + Len(pm.controllables) <= MaxRoster
    /\ _handle_player_mappings(pm, initOk)
    /\ UNCHANGED << frameVars, procVars, _latest_prediction, blocking,
                    dispatched >>

\* handle_incoming_messages raised BlockingIOError: nothing more to read.
\* Empty mailbox: switch to blocking and poll again; otherwise process the
\* mailbox's packet and empty the mailbox.
WouldBlock(out) ==
    /\ UNCHANGED otherVars
    /\ pc = "polling"
    /\ ~blocking
    /\ IF _latest_packet = NoPacket
          THEN /\ blocking' = TRUE
               /\ UNCHANGED << frameVars, procVars, sent, exitVars >>
          ELSE /\ _packet_processor(_latest_packet, out)
               /\ IF lastResult' \notin Returned
                     THEN /\ RunFinally(lastResult')
                          /\ UNCHANGED << frameVars, blocking >>
                     ELSE /\ _latest_packet' = NoPacket
                          /\ pending' = << >>
                          /\ UNCHANGED << frameCount, blocking, exitVars >>
    /\ UNCHANGED << roster, payloads, flags, initVars, _latest_prediction,
                    dispatched >>

\* handle_incoming_messages returned (the connection was closed): break
ConnectionClosed ==
    /\ UNCHANGED otherVars
    /\ pc = "polling"
    /\ RunFinally("none")
    /\ UNCHANGED << roster, payloads, flags, initVars, frameVars, procVars,
                    _latest_prediction, blocking, sent, dispatched >>

\* handle_incoming_messages raised something other than BlockingIOError
RelayError ==
    /\ UNCHANGED otherVars
    /\ pc = "polling"
    /\ RunFinally("RelayError")
    /\ UNCHANGED << roster, payloads, flags, initVars, frameVars, procVars,
                    _latest_prediction, blocking, sent, dispatched >>

Next ==
    \/ \E ok \in BOOLEAN : Connect(ok)
    \/ \E ms \in MatchSettingsPayloads, initOk \in BOOLEAN :
          RelayMatchSettings(ms, initOk)
    \/ \E fi \in FieldInfoPayloads, initOk \in BOOLEAN :
          RelayFieldInfo(fi, initOk)
    \/ \E pm \in PlayerMappingPayloads : RelayPlayerMapping(pm)
    \/ RelayMatchComm
    \/ \E bp \in BallPredictionPayloads : RelayBallPrediction(bp)
    \/ \E n \in PlayerCounts : RelayPacket(n)
    \/ \E pm \in PlayerMappingPayloads, initOk \in BOOLEAN :
          CallHandlePlayerMappings(pm, initOk)
    \/ \E out \in GetOutputsResults : WouldBlock(out)
    \/ ConnectionClosed
    \/ RelayError

Spec == Init /\ [][Next]_vars

\* ===================================================== properties
AllThree == _has_match_settings /\ _has_field_info /\ _has_player_mapping

\* number of send_init_complete() messages sent so far
InitCompleteSent ==
    Cardinality({ k \in 1 .. Len(sent) : sent[k].type = "init_complete" })

\* number of send_player_input() messages sent so far
PlayerInputSent ==
    Cardinality({ k \in 1 .. Len(sent) : sent[k].type = "player_input" })

\* C1: whatever the order and repetition of the three handshake deliveries,
\* initialize() has been invoked exactly once as soon as all three has-flags
\* are true and not at all before, and the invocation happens in the very
\* step that makes the three flags true for the first time.
C1_InitializeOnceOnConvergence ==
    /\ [](initCalls = IF AllThree THEN 1 ELSE 0)
    /\ [][initCalls' # initCalls =>
            ~AllThree /\ AllThree' /\ initCalls' = initCalls + 1]_vars

\* the handshake has converged with the player mapping delivered more than
\* once, and initialize() has run
C1_Witness ==
    /\ AllThree
    /\ initCalls = 1
    /\ Len(indices) = 3

\* C2: _initialized_bot never goes back to false; once it is true no
\* delivery invokes initialize() or send_init_complete() again; each of the
\* two happens at most once, and send_init_complete() only after
\* initialize() has returned normally.
C2_InitializedIsFinal ==
    /\ [](/\ initCalls <= 1
          /\ InitCompleteSent <= 1
          /\ (InitCompleteSent = 1 =>
                 initCalls = 1 /\ ~initFailed /\ _initialized_bot))
    /\ [][_initialized_bot =>
            /\ _initialized_bot'
            /\ initCalls' = initCalls
            /\ InitCompleteSent' = InitCompleteSent]_vars

\* initialized, and match settings were delivered again afterwards: the
\* names were taken from a payload listing "a" first, the stored payload
\* lists "b" first
C2_Witness ==
    /\ _initialized_bot
    /\ names = << "a", "b" >>
    /\ match_settings[1].name = "b"
    /\ InitCompleteSent = 1

\* C3: once the relay has dispatched a match-settings, a field-info and a
\* player-mapping payload during run(), and run() is still in its loop,
\* initialize() has been invoked and send_init_complete() has been sent.
C3_HandshakeConverges ==
    (HandshakeKinds \subseteq dispatched /\ pc = "polling") =>
        (initCalls = 1 /\ InitCompleteSent = 1)

\* C4: get_outputs() has not been invoked and no player input has been sent
\* while _initialized_bot is false.
C4_NoFrameBeforeInitialized ==
    (getOutputsCalls > 0 \/ PlayerInputSent > 0) => _initialized_bot

\* C5: when initialize() has raised, _initialized_bot is false,
\* send_init_complete() was not sent, run() has been left by SystemExit, and
\* the failing step itself processes no frame and sends nothing; no step
\* follows it.
C5_InitializeFailureIsFatal ==
    /\ [](initFailed =>
            /\ ~_initialized_bot
            /\ InitCompleteSent = 0
            /\ pc = "exited"
            /\ raised = "SystemExit")
    /\ [][initFailed' =>
            /\ ~initFailed
            /\ processed' = processed
            /\ getOutputsCalls' = getOutputsCalls
            /\ sent' = sent]_vars

\* initialize() raised after a frame had been delivered to the mailbox
C5_Witness ==
    /\ initFailed
    /\ initCalls = 1
    /\ _latest_packet # NoPacket

\* C6: the mailbox holds exactly the most recently delivered packet since
\* the last drain (or nothing); a drain passes one packet to
\* _packet_processor, the most recent one, and leaves the mailbox empty when
\* the loop goes on; packets are processed in delivery order without
\* repetition.
C6_MailboxLastWriteWins ==
    /\ [](IF pending = << >> THEN _latest_packet = NoPacket
          ELSE _latest_packet.id = Last(pending))
    /\ [](\A i, j \in 1 .. Len(processed) :
             i < j => processed[i] < processed[j])
    /\ [][processed' # processed =>
            /\ Len(pending) >= 1
            /\ processed' = Append(processed, Last(pending))
            /\ (pc' = "polling" =>
                   _latest_packet' = NoPacket /\ pending' = << >>)]_vars

\* two packets were delivered before the drain: the only packet processed
\* is the second
C6_Witness ==
    /\ processed = << 2 >>
    /\ _latest_packet = NoPacket
    /\ pc = "polling"

\* C7: a step in which get_outputs() raises sends nothing, leaves run() in
\* its loop and empties the mailbox; and in every step in which
\* get_outputs() returns, however many earlier calls failed, the returned
\* items are sent.
C7_GetOutputsFailureIsolated ==
    [][/\ (getOutputsFails' # getOutputsFails =>
              /\ getOutputsCalls' = getOutputsCalls + 1
              /\ sent' = sent
              /\ pc' = "polling"
              /\ raised' = raised
              /\ _latest_packet' = NoPacket)
       /\ (getOutputsCalls' # getOutputsCalls
             /\ getOutputsFails' = getOutputsFails =>
              /\ Len(sent') = Len(sent) + Len(lastOutputs')
              /\ pc' = "polling")]_vars

\* get_outputs() failed on the first accepted frame and the outputs of the
\* next one were sent
C7_Witness ==
    /\ getOutputsFails = 1
    /\ getOutputsCalls = 2
    /\ lastResult = "sent"
    /\ PlayerInputSent >= 1
    /\ pc = "polling"

\* C8: a frame passed to _packet_processor with a non-empty roster is
\* discarded exactly when len(packet.players) <= max(indices), and a
\* discarded frame changes nothing else.
C8_DiscardBelowHighestIndex ==
    [][(processed' # processed /\ indices # << >>) =>
          /\ (lastResult' = "discarded") <=>
                (_latest_packet.players <= SeqMax(indices))
          /\ (lastResult' = "discarded" =>
                UNCHANGED << getOutputsCalls, sent, ball_prediction >>)]_vars

\* C9: in a step in which get_outputs() returns a dict, the messages sent
\* are one player input per item, with the item's index and controller, in
\* item order, and nothing else; get_outputs() saw ball_prediction equal to
\* the most recently received prediction.
C9_OneInputPerEntry ==
    [][(getOutputsCalls' # getOutputsCalls /\ lastResult' = "sent") =>
          /\ Len(sent') = Len(sent) + Len(lastOutputs')
          /\ SubSeq(sent', 1, Len(sent)) = sent
          /\ \A k \in 1 .. Len(lastOutputs') :
                sent'[Len(sent) + k] =
                    [type |-> "player_input",
                     index |-> lastOutputs'[k].index,
                     controller |-> lastOutputs'[k].controller]
          /\ seenPrediction' = _latest_prediction
          /\ ball_prediction' = _latest_prediction]_vars

\* a two-entry dict was returned and sent after a second prediction arrived
C9_Witness ==
    /\ lastResult = "sent"
    /\ Len(lastOutputs) = 2
    /\ PlayerInputSent >= 2
    /\ ball_prediction = "bp2"
    /\ seenPrediction = "bp2"

\* C10: run() has been left, by whatever path, exactly when retire() has
\* been invoked once and the relay then released; before that neither has
\* happened.
C10_TeardownOnEveryExit ==
    teardown = IF pc = "exited" THEN << "retire", "del_game_interface" >>
               ELSE << >>

\* run() left by the SystemExit of a failed initialize()
C10_Witness ==
    /\ pc = "exited"
    /\ raised = "SystemExit"
    /\ teardown = << "retire", "del_game_interface" >>

\* =================================================== RenderingManager
\* everything the batcher never touches
hivemindVars == << roster, payloads, flags, initVars, exitVars, frameVars,
                   procVars, _latest_prediction, blocking, sent, dispatched,
                   lastGameStateArgs, other >>

\* hash(str(group_id).encode("utf-8")) % MAX_INT, in this process
_get_group_id(name) == RawHash(hash_seed, name) % MAX_INT

is_rendering(r) == group_id[r] # NoGroup

\* flat.RenderGroup(renders, id) handed to send_render_group
RenderGroupMsg(r, renders, id) ==
    [by |-> r, type |-> "render_group", id |-> id, renders |-> renders]

\* the id handed to remove_render_group
RemoveGroupMsg(r, id) ==
    [by |-> r, type |-> "remove_render_group", id |-> id, renders |-> << >>]

\* the orders in which iterating a set can yield its elements
IterationOrders(S) ==
    { q \in [1 .. Cardinality(S) -> S] :
        \A i, j \in 1 .. Cardinality(S) : i # j => q[i] # q[j] }

\* variant: the check for an already open batch is missing
begin_rendering_reopen(r, name) ==
    /\ last_call' = [by |-> r, op |-> "begin_rendering"]
    /\ group_id' = [group_id EXCEPT ![r] = _get_group_id(name)]
    /\ used_group_ids' =
          [used_group_ids EXCEPT ![r] = @ \cup { group_id'[r] }]
    /\ open_name' = [open_name EXCEPT ![r] = name]
    /\ since_begin' = [since_begin EXCEPT ![r] = << >>]
    /\ known_ids' = known_ids \cup { << name, group_id'[r] >> }
    /\ UNCHANGED << current_renders, render_sent, since_end, hash_seed,
                    hivemindVars >>

begin_rendering(r, name) ==
    /\ last_call' = [by |-> r, op |-> "begin_rendering"]
    /\ IF group_id[r] # NoGroup
          THEN \* logged; nothing else
               UNCHANGED << group_id, used_group_ids, open_name, since_begin,
                            known_ids >>
          ELSE /\ group_id' = [group_id EXCEPT ![r] = _get_group_id(name)]
               /\ used_group_ids' =
                     [used_group_ids EXCEPT ![r] = @ \cup { group_id'[r] }]
               /\ open_name' = [open_name EXCEPT ![r] = name]
               /\ since_begin' = [since_begin EXCEPT ![r] = << >>]
               /\ known_ids' = known_ids \cup { << name, group_id'[r] >> }
    /\ UNCHANGED << current_renders, render_sent, since_end, hash_seed,
                    hivemindVars >>

\* variant: the accumulated renders are not cleared after sending
end_rendering_keep(r) ==
    /\ last_call' = [by |-> r, op |-> "end_rendering"]
    /\ IF group_id[r] = NoGroup
          THEN UNCHANGED << render_sent, current_renders, group_id,
                            open_name, since_begin, since_end >>
          ELSE /\ Len(render_sent) < MaxRenderMsgs
               /\ render_sent' =
                     Append(render_sent,
                            RenderGroupMsg(r, current_renders[r], group_id[r]))
               /\ group_id' = [group_id EXCEPT ![r] = NoGroup]
               /\ open_name' = [open_name EXCEPT ![r] = "none"]
               /\ since_begin' = [since_begin EXCEPT ![r] = << >>]
               /\ since_end' = [since_end EXCEPT ![r] = << >>]
               /\ UNCHANGED current_renders
    /\ UNCHANGED << used_group_ids, known_ids, hash_seed, hivemindVars >>

end_rendering(r) ==
    /\ last_call' = [by |-> r, op |-> "end_rendering"]
    /\ IF group_id[r] = NoGroup
          THEN \* logged; nothing else
               UNCHANGED << render_sent, current_renders, group_id,
                            open_name, since_begin, since_end >>
          ELSE /\ Len(render_sent) < MaxRenderMsgs
               /\ render_sent' =
                     Append(render_sent,
                            RenderGroupMsg(r, current_renders[r], group_id[r]))
               /\ current_renders' = [current_renders EXCEPT ![r] = << >>]
               /\ group_id' = [group_id EXCEPT ![r] = NoGroup]
               /\ open_name' = [open_name EXCEPT ![r] = "none"]
               /\ since_begin' = [since_begin EXCEPT ![r] = << >>]
               /\ since_end' = [since_end EXCEPT ![r] = << >>]
    /\ UNCHANGED << used_group_ids, known_ids, hash_seed, hivemindVars >>

clear_render_group(r, name) ==
    /\ last_call' = [by |-> r, op |-> "clear_render_group"]
    /\ Len(render_sent) < MaxRenderMsgs
    /\ render_sent' =
          Append(render_sent, RemoveGroupMsg(r, _get_group_id(name)))
    /\ used_group_ids' =
          [used_group_ids EXCEPT ![r] = @ \ { _get_group_id(name) }]
    /\ known_ids' = known_ids \cup { << name, _get_group_id(name) >> }
    /\ UNCHANGED << group_id, current_renders, open_name, since_begin,
                    since_end, hash_seed, hivemindVars >>

\* variant: the owned ids are one set shared by all instances
clear_all_render_groups_shared(r) ==
    /\ last_call' = [by |-> r, op |-> "clear_all_render_groups"]
    /\ LET all == UNION { used_group_ids[q] : q \in Renderers } IN
          /\ Len(render_sent) + Cardinality(all) <= MaxRenderMsgs
          /\ \E order \in IterationOrders(all) :
                render_sent' =
                   render_sent \o
                      [k \in 1 .. Len(order) |-> RemoveGroupMsg(r, order[k])]
    /\ used_group_ids' = [q \in Renderers |-> {}]
    /\ UNCHANGED << group_id, current_renders, open_name, since_begin,
                    since_end, known_ids, hash_seed, hivemindVars >>

clear_all_render_groups(r) ==
    /\ last_call' = [by |-> r, op |-> "clear_all_render_groups"]
    /\ Len(render_sent) + Cardinality(used_group_ids[r]) <= MaxRenderMsgs
    /\ \E order \in IterationOrders(used_group_ids[r]) :
          render_sent' =
             render_sent \o
                [k \in 1 .. Len(order) |-> RemoveGroupMsg(r, order[k])]
    /\ used_group_ids' = [used_group_ids EXCEPT ![r] = {}]
    /\ UNCHANGED << group_id, current_renders, open_name, since_begin,
                    since_end, known_ids, hash_seed, hivemindVars >>

RECURSIVE SumLen(_)
SumLen(seqs) ==
    IF seqs = << >> THEN 0 ELSE Len(Head(seqs)) + SumLen(Tail(seqs))

\* draw calls made so far: their descriptors are either still accumulated
\* or in a message that was sent
TotalDrawn ==
    SumLen([k \in 1 .. Len(render_sent) |-> render_sent[k].renders])
       + Len(current_renders[1]) + Len(current_renders[2])

\* the four draw methods append flat.RenderMessage(flat.RenderType(kind=render))
\* to current_renders, whether or not a batch is open
AppendRender(r, kind, render) ==
    /\ TotalDrawn < MaxRenders
    /\ current_renders' =
          [current_renders EXCEPT
              ![r] = Append(@, [kind |-> kind, render |-> render])]
    /\ since_end' =
          [since_end EXCEPT ![r] = Append(@, [kind |-> kind, render |-> render])]
    /\ since_begin' =
          IF is_rendering(r)
             THEN [since_begin EXCEPT
                      ![r] = Append(@, [kind |-> kind, render |-> render])]
             ELSE since_begin
    /\ UNCHANGED << used_group_ids, group_id, render_sent, open_name,
                    known_ids, hash_seed, hivemindVars >>

draw_string_2d(r, render) ==
    /\ last_call' = [by |-> r, op |-> "draw_string_2d"]
    /\ AppendRender(r, "string_2_d", render)

draw_string_3d(r, render) ==
    /\ last_call' = [by |-> r, op |-> "draw_string_3d"]
    /\ AppendRender(r, "string_3_d", render)

draw_line_3d(r, render) ==
    /\ last_call' = [by |-> r, op |-> "draw_line_3d"]
    /\ AppendRender(r, "line_3_d", render)

draw_polyline_3d(r, render) ==
    /\ last_call' = [by |-> r, op |-> "draw_polyline_3d"]
    /\ AppendRender(r, "poly_line_3_d", render)

\* the render argument of a draw call
Renders == { "r1" }

NextRender ==
    \/ \E name \in GroupNames : begin_rendering(1, name)
    \/ end_rendering(1)
    \/ \E name \in GroupNames : clear_render_group(1, name)
    \/ clear_all_render_groups(1)
    \/ \E render \in Renders : draw_string_2d(1, render)
    \/ \E render \in Renders : draw_string_3d(1, render)
    \/ \E render \in Renders : draw_line_3d(1, render)
    \/ \E render \in Renders : draw_polyline_3d(1, render)

\* a process starts with any of the seeds
InitRender ==
    /\ HivemindInit
    /\ RenderInit
    /\ hash_seed \in HashSeeds

SpecRender == InitRender /\ [][NextRender]_vars

\* two instances in one process opening, closing and clearing groups
NextRenderTwo ==
    \/ \E r \in Renderers, name \in GroupNames : begin_rendering(r, name)
    \/ \E r \in Renderers : end_rendering(r)
    \/ \E r \in Renderers, name \in GroupNames : clear_render_group(r, name)
    \/ \E r \in Renderers : clear_all_render_groups(r)

SpecRenderTwo == InitRender /\ [][NextRenderTwo]_vars

\* the program is run again: a new interpreter with a new seed and a fresh
\* batcher; what earlier runs computed and sent stays on record
NewProcess(seed) ==
    /\ hash_seed' = seed
    /\ used_group_ids' = [r \in Renderers |-> {}]
    /\ group_id' = [r \in Renderers |-> NoGroup]
    /\ current_renders' = [r \in Renderers |-> << >>]
    /\ last_call' = NoCall
    /\ open_name' = [r \in Renderers |-> "none"]
    /\ since_begin' = [r \in Renderers |-> << >>]
    /\ since_end' = [r \in Renderers |-> << >>]
    /\ UNCHANGED << render_sent, known_ids, hivemindVars >>

NextProcesses ==
    \/ \E name \in GroupNames : begin_rendering(1, name)
    \/ end_rendering(1)
    \/ \E name \in GroupNames : clear_render_group(1, name)
    \/ \E seed \in HashSeeds : NewProcess(seed)

SpecProcesses == InitRender /\ [][NextProcesses]_vars

\* ------------------------------------------------- batcher properties
\* C11: a begin_rendering call on an instance with a batch open changes
\* neither that batch's id, nor the accumulated renders, nor the owned ids,
\* and sends nothing; an end_rendering call on an instance with no batch
\* open sends nothing and changes none of these either.
C11_MisuseIsNoOp ==
    [][\A r \in Renderers :
          /\ (last_call' = [by |-> r, op |-> "begin_rendering"]
                /\ group_id[r] # NoGroup) =>
                UNCHANGED << group_id, current_renders, used_group_ids,
                             render_sent >>
          /\ (last_call' = [by |-> r, op |-> "end_rendering"]
                /\ group_id[r] = NoGroup) =>
                UNCHANGED << group_id, current_renders, used_group_ids,
                             render_sent >>]_vars

\* begin_rendering was called again after a draw into the open batch: the
\* batch and its render are still there
C11_Witness ==
    /\ last_call = [by |-> 1, op |-> "begin_rendering"]
    /\ group_id[1] # NoGroup
    /\ Len(since_begin[1]) = 1
    /\ current_renders[1] = since_begin[1]

\* C12 as stated: an end_rendering call with a batch open sends one
\* render-group message with the id of the name given to the matching
\* begin_rendering and exactly the descriptors drawn since that
\* begin_rendering, in call order; afterwards nothing is accumulated and no
\* batch is open.
C12_EndSendsBatchDrawnWhileOpen ==
    [][\A r \in Renderers :
          (last_call' = [by |-> r, op |-> "end_rendering"]
             /\ group_id[r] # NoGroup) =>
             /\ render_sent' =
                   Append(render_sent,
                          [by |-> r, type |-> "render_group",
                           id |-> _get_group_id(open_name[r]),
                           renders |-> since_begin[r]])
             /\ current_renders'[r] = << >>
             /\ group_id'[r] = NoGroup]_vars

\* C12 amended: the message carries every descriptor drawn on the instance
\* since its previous end_rendering that sent a message (or since
\* construction), in call order, those drawn while no batch was open
\* included.
C12_EndSendsAllAccumulated ==
    [][\A r \in Renderers :
          (last_call' = [by |-> r, op |-> "end_rendering"]
             /\ group_id[r] # NoGroup) =>
             /\ render_sent' =
                   Append(render_sent,
                          [by |-> r, type |-> "render_group",
                           id |-> _get_group_id(open_name[r]),
                           renders |-> since_end[r]])
             /\ current_renders'[r] = << >>
             /\ group_id'[r] = NoGroup]_vars

\* a batch named "x" was closed and sent with two descriptors
C12_Witness ==
    /\ last_call = [by |-> 1, op |-> "end_rendering"]
    /\ render_sent # << >>
    /\ Last(render_sent).type = "render_group"
    /\ Last(render_sent).id = _get_group_id("x")
    /\ Len(Last(render_sent).renders) = 2
    /\ group_id[1] = NoGroup
    /\ current_renders[1] = << >>

\* C13: every two _get_group_id calls with the same name, in whatever
\* instance or run of the program, gave the same id.
C13_GroupIdProcessIndependent ==
    \A p, q \in known_ids : p[1] = q[1] => p[2] = q[2]

\* C14: a clear_all_render_groups call on an instance sends removals only,
\* one for each id the instance owns and for no other id, empties its
\* owned-id set and leaves every other instance's owned ids alone.
C14_ClearAllOnlyOwned ==
    [][\A r \in Renderers :
          last_call' = [by |-> r, op |-> "clear_all_render_groups"] =>
             LET n == Len(render_sent') - Len(render_sent) IN
             /\ n = Cardinality(used_group_ids[r])
             /\ SubSeq(render_sent', 1, Len(render_sent)) = render_sent
             /\ \A k \in 1 .. n :
                   /\ render_sent'[Len(render_sent) + k].type =
                         "remove_render_group"
                   /\ render_sent'[Len(render_sent) + k].by = r
             /\ { render_sent'[Len(render_sent) + k].id : k \in 1 .. n } =
                   used_group_ids[r]
             /\ used_group_ids'[r] = {}
             /\ \A q \in Renderers \ { r } :
                   used_group_ids'[q] = used_group_ids[q]]_vars

\* instance 1 cleared its one group while instance 2 owns another id, for
\* which no removal was ever sent
C14_Witness ==
    /\ last_call = [by |-> 1, op |-> "clear_all_render_groups"]
    /\ used_group_ids[1] = {}
    /\ render_sent # << >>
    /\ Last(render_sent).type = "remove_render_group"
    /\ Last(render_sent).by = 1
    /\ \E id \in used_group_ids[2] :
          \A k \in 1 .. Len(render_sent) : render_sent[k].id # id

\* ids of the groups an instance has sent and not removed since
Displayed(r) ==
    { render_sent[k].id : k \in
        { k \in 1 .. Len(render_sent) :
            /\ render_sent[k].by = r
            /\ render_sent[k].type = "render_group"
            /\ \A j \in (k + 1) .. Len(render_sent) :
                  ~(/\ render_sent[j].by = r
                    /\ render_sent[j].type = "remove_render_group"
                    /\ render_sent[j].id = render_sent[k].id) } }

\* C20: every group an instance has sent and not removed since is in its
\* owned-id set.
C20_DisplayedGroupsAreOwned ==
    \A r \in Renderers : Displayed(r) \subseteq used_group_ids[r]

\* ===================================================== set_game_state
\* flat.DesiredBallState() / flat.DesiredCarState(): the empty states
DefaultBallState == "ball_default"
DefaultCarState == "car_default"
\* states a caller asks for
BallStates == { "ballA" }
CarStates == { "carA" }
GameInfoStates == { None, "game_info" }

\* ball_states / car_states of flat.DesiredGameState(...) when left unset
UnsetStates == << >>

\* the dicts over keys 0 .. MaxKey
SparseDicts(values) ==
    UNION { [keys -> values] : keys \in SUBSET (0 .. MaxKey) }

\* max(d.keys())
MaxEntry(d) == CHOOSE k \in DOMAIN d : \A j \in DOMAIN d : j <= k

\* variant: range(max_entry) instead of range(max_entry + 1)
DenseStates_short(d, default) ==
    [i \in 1 .. MaxEntry(d) |->
        IF (i - 1) \in DOMAIN d THEN d[i - 1] ELSE default]

\* [d.get(i, default) for i in range(max_entry + 1)]; list position i is
\* sequence index i + 1
DenseStates(d, default) ==
    [i \in 1 .. (MaxEntry(d) + 1) |->
        IF (i - 1) \in DOMAIN d THEN d[i - 1] ELSE default]

set_game_state(balls, cars, game_info) ==
    /\ Len(sent) < MaxGameStates
    /\ sent' =
          Append(sent,
                 [type |-> "game_state",
                  game_info_state |-> game_info,
                  console_commands |-> << >>,
                  ball_states |-> IF balls # EmptyDict
                                     THEN DenseStates(balls, DefaultBallState)
                                     ELSE UnsetStates,
                  car_states |-> IF cars # EmptyDict
                                    THEN DenseStates(cars, DefaultCarState)
                                    ELSE UnsetStates])
    /\ lastGameStateArgs' = [called |-> TRUE, balls |-> balls, cars |-> cars]
    /\ UNCHANGED << roster, payloads, flags, initVars, exitVars, frameVars,
                    procVars, _latest_prediction, blocking, dispatched,
                    other, renderVars >>

NextGameState ==
    \E balls \in SparseDicts(BallStates), cars \in SparseDicts(CarStates),
       game_info \in GameInfoStates :
          set_game_state(balls, cars, game_info)

SpecGameState == Init /\ [][NextGameState]_vars

\* a sequence is the dense form of a dict: nothing for the empty dict,
\* otherwise one position per index from 0 to the highest key, holding the
\* dict's value where the index is a key and the default elsewhere
IsDenseFormOf(states, d, default) ==
    IF DOMAIN d = {} THEN states = UnsetStates
    ELSE \E top \in DOMAIN d :
            /\ \A k \in DOMAIN d : k <= top
            /\ Len(states) = top + 1
            /\ \A i \in 0 .. top :
                  states[i + 1] = IF i \in DOMAIN d THEN d[i] ELSE default

\* C15: a set_game_state call sends exactly one desired-state message, in
\* which the ball states are the dense form of the balls dict and the car
\* states the dense form of the cars dict, each omitted when its dict is
\* empty.
C15_DenseDesiredState ==
    [][lastGameStateArgs' # lastGameStateArgs \/ sent' # sent =>
          /\ Len(sent') = Len(sent) + 1
          /\ SubSeq(sent', 1, Len(sent)) = sent
          /\ Last(sent').type = "game_state"
          /\ IsDenseFormOf(Last(sent').ball_states,
                           lastGameStateArgs'.balls, DefaultBallState)
          /\ IsDenseFormOf(Last(sent').car_states,
                           lastGameStateArgs'.cars, DefaultCarState)]_vars

\* set_game_state(balls={2: ballA}) sent [default, default, ballA] and no
\* car states
C15_Witness ==
    /\ lastGameStateArgs.called
    /\ DOMAIN lastGameStateArgs.balls = { 2 }
    /\ DOMAIN lastGameStateArgs.cars = {}
    /\ Last(sent).ball_states =
          << DefaultBallState, DefaultBallState, "ballA" >>
    /\ Last(sent).car_states = UnsetStates

\* ================================================ a failing relay send
\* the drain step of WouldBlock in which get_outputs() returns a dict and
\* the failAt-th send_player_input() raises: the sends before it were made,
\* nothing catches the exception, and it leaves the loop of run()
SendFails(out, failAt) ==
    /\ UNCHANGED otherVars
    /\ pc = "polling"
    /\ ~blocking
    /\ _latest_packet # NoPacket
    /\ indices # << >>
    /\ ~(_latest_packet.players <= Last(indices))
    /\ ~out.raises
    /\ failAt \in 1 .. Len(out.items)
    /\ processed' = Append(processed, _latest_packet.id)
    /\ ball_prediction' = _latest_prediction
    /\ seenPrediction' = ball_prediction'
    /\ getOutputsCalls' = getOutputsCalls + 1
    /\ lastOutputs' = out.items
    /\ sent' = sent \o SubSeq(PlayerInputs(out.items), 1, failAt - 1)
    /\ lastResult' = "SendError"
    /\ RunFinally(lastResult')
    /\ UNCHANGED << roster, payloads, flags, initVars, frameVars,
                    getOutputsFails, _latest_prediction, blocking,
                    dispatched >>

NextSendFail ==
    \/ Next
    \/ \E out \in GetOutputsResults :
          \E failAt \in 1 .. Len(out.items) : SendFails(out, failAt)

SpecSendFail == Init /\ [][NextSendFail]_vars

\* C16: when send_player_input() raises for one entry of the dict
\* get_outputs() returned, the sends for all the other entries are still
\* made and run() stays in its loop.
C16_SendFailureIsolated ==
    [][(lastResult' = "SendError" /\ processed' # processed) =>
          /\ Len(sent') = Len(sent) + Len(lastOutputs') - 1
          /\ pc' = "polling"]_vars

\* ================================================ the roster
\* the name the stored match settings configure for a spawn id
IsConfiguredName(name, spawn_id) ==
    \E c \in 1 .. Len(match_settings) :
        /\ match_settings[c].spawn_id = spawn_id
        /\ match_settings[c].name = name

\* C17: once initialization has completed, spawn_ids, indices and names
\* have the same length and names[k] is the name configured for
\* spawn_ids[k], at every position k.
C17_RosterSequencesParallel ==
    _initialized_bot =>
        /\ Len(indices) = Len(spawn_ids)
        /\ Len(names) = Len(spawn_ids)
        /\ \A k \in 1 .. Len(spawn_ids) :
              IsConfiguredName(names[k], spawn_ids[k])

\* C18: delivering a handshake payload of a kind already received keeps
\* the three flags true and leaves team, spawn_ids and indices equal to
\* what a single delivery of one player mapping leaves; the same mapping
\* delivered twice does not grow the roster.
C18_RedeliveryIdempotent ==
    [][/\ _has_match_settings => _has_match_settings'
       /\ _has_field_info => _has_field_info'
       /\ _has_player_mapping => _has_player_mapping'
       /\ (_has_player_mapping /\ roster' # roster) =>
             \E pm \in PlayerMappingPayloads :
                /\ team' = pm.team
                /\ spawn_ids' = SpawnIdsOf(pm.controllables)
                /\ indices' = IndicesOf(pm.controllables)]_vars

\* ================================================ two instances
\* A second Hivemind constructed in the same process. __init__ assigns
\* none of loggers, indices, names, spawn_ids, and the handlers only append
\* to them: on both instances these names resolve to the four lists of the
\* class, the variables spawn_ids, indices, names and loggers. The
\* attributes the handlers assign live on the instance, in other. The
\* second instance has its own relay and its initialize() hook returns.

\* what the first instance has that the second instance's handlers cannot
\* reach: the attributes assigned on it, its relay, its run()
ownVars == << team, payloads, flags, _initialized_bot, initCalls, initFailed,
              exitVars, frameVars, procVars, _latest_prediction, blocking,
              sent, dispatched, lastGameStateArgs, renderVars >>

\* the second instance after a handler has assigned o's attributes and
\* appended sids and idxs: the guard of the handler, then _initialize
OtherHandled(o, sids, idxs) ==
    LET initializes == /\ ~other._initialized_bot
                       /\ o._has_match_settings
                       /\ o._has_field_info
                       /\ o._has_player_mapping
        added == IF initializes
                    THEN MatchingNames(o.match_settings, spawn_ids \o sids)
                    ELSE << >>
    IN  /\ other' = [o EXCEPT !._initialized_bot = @ \/ initializes]
        /\ spawn_ids' = spawn_ids \o sids
        /\ indices' = indices \o idxs
        /\ names' = names \o added
        /\ loggers' = loggers \o added

Other_handle_match_settings(ms) ==
    /\ OtherHandled([other EXCEPT !.match_settings = ms,
                                  !._has_match_settings = TRUE],
                    << >>, << >>)
    /\ UNCHANGED ownVars

Other_handle_field_info(fi) ==
    /\ OtherHandled([other EXCEPT !.field_info = fi,
                                  !._has_field_info = TRUE],
                    << >>, << >>)
    /\ UNCHANGED ownVars

Other_handle_player_mappings(pm) ==
    /\ Len(indices) + Len(pm.controllables) <= MaxRoster
    /\ OtherHandled([other EXCEPT !.team = pm.team,
                                  !._has_player_mapping = TRUE],
                    SpawnIdsOf(pm.controllables), IndicesOf(pm.controllables))
    /\ UNCHANGED ownVars

NextInstances ==
    \/ \E ok \in BOOLEAN : Connect(ok)
    \/ \E ms \in MatchSettingsPayloads, initOk \in BOOLEAN :
          RelayMatchSettings(ms, initOk)
    \/ \E fi \in FieldInfoPayloads, initOk \in BOOLEAN :
          RelayFieldInfo(fi, initOk)
    \/ \E pm \in PlayerMappingPayloads, initOk \in BOOLEAN :
          CallHandlePlayerMappings(pm, initOk)
    \/ \E ms \in MatchSettingsPayloads : Other_handle_match_settings(ms)
    \/ \E fi \in FieldInfoPayloads : Other_handle_field_info(fi)
    \/ \E pm \in PlayerMappingPayloads : Other_handle_player_mappings(pm)

SpecInstances == Init /\ [][NextInstances]_vars

\* C19: a handshake payload delivered to the second instance, and its
\* initialization, leave the spawn_ids, indices, names and loggers of the
\* first instance unchanged.
C19_RosterPerInstance ==
    [][other' # other => UNCHANGED << spawn_ids, indices, names, loggers >>]_vars

====
